---- MODULE Spec2Model ----
(***************************************************************************)
(* higan libretro target: the serialize cache of the frontend entry points *)
(* (retro_run, retro_serialize_size, retro_serialize, ...), the resource   *)
(* dispatcher Program::open with its storage tiers, and the load sequence  *)
(* retro_load_game, modelled from target-libretro/libretro.cpp (the        *)
(* Icarus-based variant, lines 473-1171) and libretro-sfc.cpp.             *)
(***************************************************************************)
EXTENDS Integers, Sequences, FiniteSets, TLC

(* ------------------------------ bounds -------------------------------- *)
\* engine run-states are 0..MaxSt; 0 is the state power() produces
MaxSt == 1
\* games the frontend can hand to retro_load_game are 1..MaxGame
MaxGame == 1
\* serialize queries counted per invalidation window
MaxQueries == 2

\* missing files the detector reports: at most MaxMissing names
MaxMissing == 2
\* Program::open calls the engine makes in one behaviour
MaxOpens == 2
\* Program::open calls of one behaviour that asks for the same file again
MaxReopens == 3
\* Largest byte of the data written to the virtual store on its own.
MaxData == 2
\* manifests the frontend can hand to retro_load_game, one after another
MaxManifests == 2
\* Program::inputPoll calls the engine makes in one step
MaxPolls == 2

\* what a cell of the caller's buffer holds before any byte is written: no byte
Poison == 0 - 1

VARIABLES
    pc,                    \* "idle", or the entry point that is inside the engine
    engine,                \* the emulator's run-state (black box)
    has_cached_serialize,  \* Program::has_cached_serialize
    cached_serialize,      \* Program::cached_serialize (bytes)
    polled,                \* Program::polled
    failed,                \* Program::failed
    fake_game_path,        \* Program::fake_game_path
    loaded_manifest,       \* Program::loaded_manifest (bytes, <<>> when empty)
    medium_paths,          \* Program::medium_paths: slot -> base path
    imported_files,        \* LibretroIcarus::imported_files: name -> bytes
    files,                 \* the disk: path -> bytes of the files that exist
    dirs,                  \* the disk: the directories that exist
    env,                   \* what environ_cb answers (system and save directory)
    filemap,               \* a nall::filemap object: p_handle, p_size, p_fd
    buf,                   \* the buffer handed to the last retro_serialize
    last,                  \* what the last entry point was given and returned
    win,                   \* history since the last invalidating event
    opn,                   \* what the last Program::open was given and did
    ld                     \* bookkeeping of the retro_load_game call in progress

cacheVars == <<has_cached_serialize, cached_serialize, buf, win>>
progVars == <<failed, fake_game_path, loaded_manifest, medium_paths, imported_files>>
diskVars == <<files, dirs, env, filemap>>
vars == <<pc, engine, polled, cacheVars, progVars, diskVars, last, opn, ld>>

(* ------------------------------ engine -------------------------------- *)
\* Size of the snapshot of the loaded game (fixed when the game is loaded).
SerializeSize(e) == e.game + 1

\* emulator->serialize(): the bytes of the engine's current run-state.
EngineSerialize(e) == [i \in 1..SerializeSize(e) |-> e.st]

\* emulator->unserialize(s) accepts s iff it is a snapshot of the loaded game.
EngineAccepts(e, s) ==
    /\ Len(s) = SerializeSize(e)
    /\ \E st \in 0..MaxSt : s = [i \in 1..Len(s) |-> st]

\* emulator->power(): back to the power-on state.
EnginePower(e) == [e EXCEPT !.st = 0]

\* Capacity of the buffers a frontend hands in: one more than any snapshot.
BufCap == MaxGame + 2

PoisonBuf == [i \in 1..BufCap |-> Poison]

\* memcpy(dst, src, n): the first n bytes of dst are replaced, the rest kept.
Memcpy(dst, src, n) == [i \in 1..Len(dst) |-> IF i <= n THEN src[i] ELSE dst[i]]

Prefix(s, n) == SubSeq(s, 1, n)

NoSnap == <<Poison>>
NoSize == 0 - 1

Min(a, b) == IF a < b THEN a ELSE b

(* --------------------------- history helpers --------------------------- *)
Observed(op, size, ok, n, ser) ==
    [op |-> op, size |-> size, ok |-> ok, n |-> n, ser |-> ser]

\* A new invalidation window opens at retro_run, retro_unserialize,
\* retro_cheat_set and retro_cheat_reset.
OpenWindow(via) ==
    [via |-> via, q |-> 0, ser |-> 0, other |-> FALSE, sized |-> NoSize,
     stale |-> IF has_cached_serialize THEN cached_serialize ELSE NoSnap]

Queried(ser, sized) ==
    [win EXCEPT !.q = @ + 1, !.ser = @ + ser,
                !.sized = IF sized = NoSize THEN @ ELSE sized]

(* ------------------- entry points: the serialize cache ----------------- *)
othersOfCache == <<polled, progVars, diskVars, opn, ld>>

\* retro_reset(): power() only; the cache flag is not touched.
RetroReset ==
    /\ pc = "idle" /\ engine.loaded
    /\ engine' = EnginePower(engine)
    /\ win' = [win EXCEPT !.other = TRUE]
    /\ last' = Observed("retro_reset", 0, TRUE, 0, 0)
    /\ UNCHANGED <<pc, has_cached_serialize, cached_serialize, buf, othersOfCache>>

\* RetroRunEnter leaving the cache flag alone.
RetroRunEnter_KeepsCache ==
    /\ pc = "idle" /\ engine.loaded
    /\ polled' = FALSE
    /\ pc' = "retro_run"
    /\ win' = OpenWindow("retro_run")
    /\ last' = Observed("retro_run", 0, TRUE, 0, 0)
    /\ UNCHANGED <<engine, has_cached_serialize, cached_serialize, buf, progVars,
                   diskVars, opn, ld>>

\* retro_run(), up to the call of emulator->run(): both flags are cleared.
RetroRunEnter ==
    /\ pc = "idle" /\ engine.loaded
    /\ polled' = FALSE
    /\ has_cached_serialize' = FALSE
    /\ pc' = "retro_run"
    /\ win' = OpenWindow("retro_run")
    /\ last' = Observed("retro_run", 0, TRUE, 0, 0)
    /\ UNCHANGED <<engine, cached_serialize, buf, progVars, diskVars, opn, ld>>

\* PollOnce leaving the flag as it finds it.
PollOnce_NoPoll(p) == p

\* Program::poll_once(): the flag polled after the call (input_poll() is
\* called when it was clear).
PollOnce(p) == IF ~p THEN TRUE ELSE p

\* Program::poll_once(): the number of input_poll() calls it makes.
PollOnceCalls(p) == IF ~p THEN 1 ELSE 0

\* Program::inputPoll(port, device, input), called by the engine from inside
\* run(): it maps the port and the device and asks input_state, or returns 0;
\* it neither polls nor touches the flag polled. For retro_run, last.size
\* counts these calls and last.n the input_poll() calls.
InputPoll(port, device) ==
    /\ pc = "retro_run"
    /\ last.size < MaxPolls
    /\ last' = [last EXCEPT !.size = @ + 1]
    /\ UNCHANGED <<pc, engine, polled, cacheVars, progVars, diskVars, opn, ld>>

\* retro_run(), the rest: emulator->run() executes one step, then poll_once().
RetroRunReturn ==
    /\ pc = "retro_run"
    /\ \E st \in (0..MaxSt) \ {engine.st} : engine' = [engine EXCEPT !.st = st]
    /\ polled' = PollOnce(polled)
    /\ last' = [last EXCEPT !.n = @ + PollOnceCalls(polled)]
    /\ pc' = "idle"
    /\ UNCHANGED <<cacheVars, progVars, diskVars, opn, ld>>

\* RetroSerializeSize forgetting to mark the snapshot it stored as valid.
RetroSerializeSize_NotMarked ==
    /\ pc = "idle" /\ engine.loaded
    /\ win.q < MaxQueries
    /\ IF has_cached_serialize
       THEN /\ last' = Observed("retro_serialize_size", 0, TRUE, Len(cached_serialize), 0)
            /\ win' = Queried(0, Len(cached_serialize))
            /\ UNCHANGED <<has_cached_serialize, cached_serialize>>
       ELSE /\ cached_serialize' = EngineSerialize(engine)
            /\ UNCHANGED has_cached_serialize
            /\ last' = Observed("retro_serialize_size", 0, TRUE, Len(cached_serialize'), 1)
            /\ win' = Queried(1, Len(cached_serialize'))
    /\ UNCHANGED <<pc, engine, buf, othersOfCache>>

\* RetroSerializeSize powering the engine before it takes the snapshot.
RetroSerializeSize_Powering ==
    /\ pc = "idle" /\ engine.loaded
    /\ win.q < MaxQueries
    /\ engine' = EnginePower(engine)
    /\ IF has_cached_serialize
       THEN /\ last' = Observed("retro_serialize_size", 0, TRUE, Len(cached_serialize), 0)
            /\ win' = Queried(0, Len(cached_serialize))
            /\ UNCHANGED <<has_cached_serialize, cached_serialize>>
       ELSE /\ cached_serialize' = EngineSerialize(engine')
            /\ has_cached_serialize' = TRUE
            /\ last' = Observed("retro_serialize_size", 0, TRUE, Len(cached_serialize'), 1)
            /\ win' = Queried(1, Len(cached_serialize'))
    /\ UNCHANGED <<pc, buf, othersOfCache>>

\* retro_serialize_size()
RetroSerializeSize ==
    /\ pc = "idle" /\ engine.loaded
    /\ win.q < MaxQueries
    /\ IF has_cached_serialize
       THEN /\ last' = Observed("retro_serialize_size", 0, TRUE, Len(cached_serialize), 0)
            /\ win' = Queried(0, Len(cached_serialize))
            /\ UNCHANGED <<has_cached_serialize, cached_serialize>>
       ELSE /\ cached_serialize' = EngineSerialize(engine)
            /\ has_cached_serialize' = TRUE
            /\ last' = Observed("retro_serialize_size", 0, TRUE, Len(cached_serialize'), 1)
            /\ win' = Queried(1, Len(cached_serialize'))
    /\ UNCHANGED <<pc, engine, buf, othersOfCache>>

\* RetroSerialize rejecting only a buffer that is too small, and copying
\* size bytes otherwise.
RetroSerialize_Truncating(size) ==
    /\ pc = "idle" /\ engine.loaded
    /\ win.q < MaxQueries
    /\ LET ser == IF has_cached_serialize THEN 0 ELSE 1
           snap == IF has_cached_serialize THEN cached_serialize
                   ELSE EngineSerialize(engine)
       IN  /\ cached_serialize' = snap
           /\ has_cached_serialize' = TRUE
           /\ win' = Queried(ser, NoSize)
           /\ IF Len(snap) < size
              THEN /\ buf' = PoisonBuf
                   /\ last' = Observed("retro_serialize", size, FALSE, 0, ser)
              ELSE /\ buf' = Memcpy(PoisonBuf, snap, size)
                   /\ last' = Observed("retro_serialize", size, TRUE, 0, ser)
    /\ UNCHANGED <<pc, engine, othersOfCache>>

\* RetroSerialize testing the size against the engine's before it touches
\* the cache.
RetroSerialize_SizeFirst(size) ==
    /\ pc = "idle" /\ engine.loaded
    /\ win.q < MaxQueries
    /\ LET ser == IF has_cached_serialize THEN 0 ELSE 1
           snap == IF has_cached_serialize THEN cached_serialize
                   ELSE EngineSerialize(engine)
       IN  IF Len(snap) # size
           THEN /\ buf' = PoisonBuf
                /\ win' = Queried(0, NoSize)
                /\ last' = Observed("retro_serialize", size, FALSE, 0, 0)
                /\ UNCHANGED <<cached_serialize, has_cached_serialize>>
           ELSE /\ cached_serialize' = snap
                /\ has_cached_serialize' = TRUE
                /\ win' = Queried(ser, NoSize)
                /\ buf' = Memcpy(PoisonBuf, snap, size)
                /\ last' = Observed("retro_serialize", size, TRUE, 0, ser)
    /\ UNCHANGED <<pc, engine, othersOfCache>>

\* retro_serialize(data, size); data is a buffer of BufCap poison bytes.
RetroSerialize(size) ==
    /\ pc = "idle" /\ engine.loaded
    /\ win.q < MaxQueries
    /\ LET ser == IF has_cached_serialize THEN 0 ELSE 1
           snap == IF has_cached_serialize THEN cached_serialize
                   ELSE EngineSerialize(engine)
       IN  /\ cached_serialize' = snap
           /\ has_cached_serialize' = TRUE
           /\ win' = Queried(ser, NoSize)
           /\ IF Len(snap) # size
              THEN /\ buf' = PoisonBuf
                   /\ last' = Observed("retro_serialize", size, FALSE, 0, ser)
              ELSE /\ buf' = Memcpy(PoisonBuf, snap, size)
                   /\ last' = Observed("retro_serialize", size, TRUE, 0, ser)
    /\ UNCHANGED <<pc, engine, othersOfCache>>

\* The states a frontend hands to retro_unserialize: snapshots of any game
\* in any state, and an empty buffer.
UnserializeInputs ==
    {[i \in 1..(g + 1) |-> st] : g \in 1..MaxGame, st \in 0..MaxSt} \cup {<<>>}

\* RetroUnserialize clearing the cache flag only when the engine accepts.
RetroUnserialize_ClearsOnAccept(data) ==
    /\ pc = "idle" /\ engine.loaded
    /\ win' = OpenWindow(IF EngineAccepts(engine, data) THEN "retro_unserialize"
                         ELSE "retro_unserialize rejected")
    /\ IF EngineAccepts(engine, data)
       THEN /\ engine' = [engine EXCEPT !.st = data[1]]
            /\ has_cached_serialize' = FALSE
            /\ last' = Observed("retro_unserialize", Len(data), TRUE, 0, 0)
       ELSE /\ last' = Observed("retro_unserialize", Len(data), FALSE, 0, 0)
            /\ UNCHANGED <<engine, has_cached_serialize>>
    /\ UNCHANGED <<pc, cached_serialize, buf, othersOfCache>>

\* retro_unserialize(data, size)
RetroUnserialize(data) ==
    /\ pc = "idle" /\ engine.loaded
    /\ has_cached_serialize' = FALSE
    /\ win' = OpenWindow(IF EngineAccepts(engine, data) THEN "retro_unserialize"
                         ELSE "retro_unserialize rejected")
    /\ IF EngineAccepts(engine, data)
       THEN /\ engine' = [engine EXCEPT !.st = data[1]]
            /\ last' = Observed("retro_unserialize", Len(data), TRUE, 0, 0)
       ELSE /\ last' = Observed("retro_unserialize", Len(data), FALSE, 0, 0)
            /\ UNCHANGED engine
    /\ UNCHANGED <<pc, cached_serialize, buf, othersOfCache>>

\* retro_cheat_reset()
RetroCheatReset ==
    /\ pc = "idle" /\ engine.loaded
    /\ has_cached_serialize' = FALSE
    /\ win' = OpenWindow("retro_cheat_reset")
    /\ last' = Observed("retro_cheat_reset", 0, TRUE, 0, 0)
    /\ UNCHANGED <<pc, engine, cached_serialize, buf, othersOfCache>>

\* retro_cheat_set(index, enabled, code): the arguments are ignored.
RetroCheatSet ==
    /\ pc = "idle" /\ engine.loaded
    /\ has_cached_serialize' = FALSE
    /\ win' = OpenWindow("retro_cheat_set")
    /\ last' = Observed("retro_cheat_set", 0, TRUE, 0, 0)
    /\ UNCHANGED <<pc, engine, cached_serialize, buf, othersOfCache>>

(* --------------------------- paths and the disk ------------------------ *)
\* A path is a sequence of string pieces, composed as the code composes its
\* strings ({ sys, "/higan/", name }); composing is concatenation.
NoDir == ""

\* Path::config() and Path::local()
ConfigDir == "config/"
LocalDir == "local/"

\* The pieces that end a directory name.
DirPieces == {"/", "/higan/", "higan/", "roms/", ".sys/", ".sfc/", ConfigDir, LocalDir}

RECURSIVE DirOf(_)
\* The directory a file of path p lies in: p up to its last directory piece.
DirOf(p) ==
    IF p = <<>> \/ p[Len(p)] \in DirPieces THEN p
    ELSE DirOf(SubSeq(p, 1, Len(p) - 1))

\* inode::exists(p)
Exists(fs, ds, p) == p \in DOMAIN fs \/ p \in ds

FilesWith(fs, p, b) == [q \in DOMAIN fs \cup {p} |-> IF q = p THEN b ELSE fs[q]]

(* ------------------------------ handles -------------------------------- *)
\* vfs::shared::file: empty, an in-memory file, a file on disk, or (where the
\* code leaves the returned object uninitialised) an indeterminate object.
NoHandle == [kind |-> "none", bytes |-> <<>>, path |-> <<>>, mode |-> "none"]
MemoryFile(b) == [kind |-> "memory", bytes |-> b, path |-> <<>>, mode |-> "read"]
DiskFile(p, mode, b) == [kind |-> "fs", bytes |-> b, path |-> p, mode |-> mode]
Indeterminate == [kind |-> "indeterminate", bytes |-> <<>>, path |-> <<>>, mode |-> "none"]

\* vfs::fs::file::open(p, mode): read needs the file; write creates or
\* truncates it and needs its directory.
FsOpen(fs, ds, p, mode) ==
    IF mode = "read"
    THEN IF p \in DOMAIN fs THEN DiskFile(p, mode, fs[p]) ELSE NoHandle
    ELSE IF p \notin ds /\ DirOf(p) \in ds THEN DiskFile(p, mode, <<>>) ELSE NoHandle

FsOpenFiles(fs, ds, p, mode) ==
    IF mode = "write" /\ FsOpen(fs, ds, p, mode) # NoHandle THEN FilesWith(fs, p, <<>>) ELSE fs

(* --------------------------- path resolver ----------------------------- *)
\* LocateTier looking in Path::local() before the frontend's directory.
LocateTier_FallbackFirst(fs, ds, e, name) ==
    IF Exists(fs, ds, <<LocalDir, "higan/">> \o name) THEN 3
    ELSE IF e.sys # NoDir /\ Exists(fs, ds, <<e.sys, "/higan/">> \o name) THEN 1
    ELSE IF Exists(fs, ds, <<ConfigDir, "higan/">> \o name) THEN 2
    ELSE 3

\* locate_libretro(name): the tier that answers: 1 the frontend's system
\* directory, 2 Path::config(), 3 Path::local() (not checked for existence).
LocateTier(fs, ds, e, name) ==
    IF e.sys # NoDir /\ Exists(fs, ds, <<e.sys, "/higan/">> \o name) THEN 1
    ELSE IF Exists(fs, ds, <<ConfigDir, "higan/">> \o name) THEN 2
    ELSE 3

\* locate_libretro(name): the path returned.
LocateLibretro(fs, ds, e, name) ==
    CASE LocateTier(fs, ds, e, name) = 1 -> <<e.sys, "/higan/">> \o name
      [] LocateTier(fs, ds, e, name) = 2 -> <<ConfigDir, "higan/">> \o name
      [] OTHER -> <<LocalDir, "higan/">> \o name

\* locate(name) of the multi-system variant of the file: the frontend's
\* system directory, its save directory, Path::config(), Path::local().
Locate(fs, ds, e, name) ==
    IF e.sys # NoDir /\ Exists(fs, ds, <<e.sys, "/higan/">> \o name)
    THEN <<e.sys, "/higan/">> \o name
    ELSE IF e.save # NoDir /\ Exists(fs, ds, <<e.save, "/higan/">> \o name)
    THEN <<e.save, "/higan/">> \o name
    ELSE IF Exists(fs, ds, <<ConfigDir, "higan/">> \o name)
    THEN <<ConfigDir, "higan/">> \o name
    ELSE <<LocalDir, "higan/">> \o name

\* LocateDirs creating no directory.
LocateDirs_NoCreate(fs, ds, e, name) == ds

\* locate_libretro(name): the directories after the call (directory::create).
LocateDirs(fs, ds, e, name) ==
    IF LocateTier(fs, ds, e, name) = 3 THEN ds \cup {<<LocalDir, "higan/">>} ELSE ds

(* --------------------------- Program::open ----------------------------- *)
\* BackendSpecific::system_id (SuperFamicom::ID::System) and the id of the
\* "sfc" medium (SuperFamicom::ID::SuperFamicom).
system_id == 0
medium_id == 1
Slots == {system_id, medium_id}

\* The names the engine asks for.
Names == {"manifest.bml", "ipl.rom", "program.rom", "save.ram"}
Modes == {"read", "write"}

\* The constants of load_builtin_system_file, abbreviated to their first
\* four bytes ("\nsys", and cd ef bd e8).
BuiltinManifest == <<10, 115, 121, 115>>
BuiltinIplRom == <<205, 239, 189, 232>>

\* load_builtin_system_file(name): the handles the call can return. For a
\* name that is neither constant the function flows off its end without a
\* return statement, so the returned object is indeterminate: it may test
\* empty or not.
load_builtin_system_file(name) ==
    IF name = "manifest.bml" THEN {MemoryFile(BuiltinManifest)}
    ELSE IF name = "ipl.rom" THEN {MemoryFile(BuiltinIplRom)}
    ELSE {NoHandle, Indeterminate}

\* No Program::open call was made in the engine call in progress.
NoOpen ==
    [id |-> system_id, name |-> "", mode |-> "none", required |-> FALSE,
     tier |-> 0, handle |-> NoHandle, path |-> <<>>, located |-> FALSE,
     created |-> FALSE, failedBefore |-> FALSE]

\* What a Program::open call was given, the tier that answered it (0: none),
\* the handle returned, the path composed, whether locate_libretro was
\* consulted, whether the call created a directory, and the failure flag
\* when it was called.
OpenObserved(id, name, mode, required, tier, handle, p, located, created) ==
    [id |-> id, name |-> name, mode |-> mode, required |-> required,
     tier |-> tier, handle |-> handle, path |-> p, located |-> located,
     created |-> created, failedBefore |-> failed]

\* OpenDisk recording every failure, required or not.
OpenDisk_IgnoresRequired(id, name, mode, required) ==
    LET p0 == medium_paths[id] \o <<name>>
        relocate == mode = "read" /\ ~Exists(files, dirs, p0)
        p == IF relocate THEN LocateLibretro(files, dirs, env, <<name>>) ELSE p0
        ds == IF relocate THEN LocateDirs(files, dirs, env, <<name>>) ELSE dirs
        result == FsOpen(files, ds, p, mode)
    IN  /\ dirs' = ds
        /\ files' = FsOpenFiles(files, ds, p, mode)
        /\ failed' = IF result = NoHandle THEN TRUE ELSE failed
        /\ opn' = OpenObserved(id, name, mode, required,
                               IF result = NoHandle THEN 0 ELSE 4, result, p, relocate, ds # dirs)

\* Program::open, the disk tier: compose the path, re-resolve it for a read
\* of a file that does not exist, open it, and set failed if required.
OpenDisk(id, name, mode, required) ==
    LET p0 == medium_paths[id] \o <<name>>
        relocate == mode = "read" /\ ~Exists(files, dirs, p0)
        p == IF relocate THEN LocateLibretro(files, dirs, env, <<name>>) ELSE p0
        ds == IF relocate THEN LocateDirs(files, dirs, env, <<name>>) ELSE dirs
        result == FsOpen(files, ds, p, mode)
    IN  /\ dirs' = ds
        /\ files' = FsOpenFiles(files, ds, p, mode)
        /\ failed' = IF result = NoHandle /\ required THEN TRUE ELSE failed
        /\ opn' = OpenObserved(id, name, mode, required,
                               IF result = NoHandle THEN 0 ELSE 4, result, p, relocate, ds # dirs)

\* ManifestTier letting an imported manifest.bml take precedence.
ManifestTier_UnlessImported(id, name) ==
    /\ name = "manifest.bml" /\ id # system_id /\ loaded_manifest # <<>>
    /\ name \notin DOMAIN imported_files

\* ManifestTier without the test of the slot.
ManifestTier_AnySlot(id, name) ==
    name = "manifest.bml" /\ loaded_manifest # <<>>

\* Program::open, the test of the first tier: the game manifest.
ManifestTier(id, name) ==
    name = "manifest.bml" /\ id # system_id /\ loaded_manifest # <<>>

\* The requests whose first answer since the last reset of the store is
\* remembered.
Watched == [id : {medium_id}, name : {"save.ram"}, mode : Modes, required : {FALSE}]
NoneSeen == [r \in {} |-> <<>>]

\* What a handle gives its caller: nothing, or the bytes of the file.
Returned(handle) == [empty |-> handle = NoHandle, bytes |-> handle.bytes]

Remember(seen, request, handle) ==
    IF request \in Watched /\ request \notin DOMAIN seen
    THEN [r \in DOMAIN seen \cup {request} |->
             IF r = request THEN Returned(handle) ELSE seen[r]]
    ELSE seen

\* Program::open(id, name, mode, required), called by the engine from inside
\* load() and unload().
Open(id, name, mode, required) ==
    /\ pc \in {"retro_load_game", "retro_unload_game"}
    /\ IF ManifestTier(id, name)
       THEN /\ opn' = OpenObserved(id, name, mode, required, 1,
                                   MemoryFile(loaded_manifest), <<>>, FALSE, FALSE)
            /\ UNCHANGED <<failed, files, dirs>>
       ELSE \E builtin \in (IF id = system_id THEN load_builtin_system_file(name)
                            ELSE {NoHandle}) :
            IF builtin # NoHandle
            THEN /\ opn' = OpenObserved(id, name, mode, required, 2, builtin, <<>>, FALSE, FALSE)
                 /\ UNCHANGED <<failed, files, dirs>>
            ELSE IF name \in DOMAIN imported_files
            THEN /\ opn' = OpenObserved(id, name, mode, required, 3,
                                        MemoryFile(imported_files[name]), <<>>, FALSE, FALSE)
                 /\ UNCHANGED <<failed, files, dirs>>
            ELSE OpenDisk(id, name, mode, required)
    /\ ld' = [ld EXCEPT !.opens = @ + 1,
                        !.requiredFailed = @ \/ (required /\ opn'.handle = NoHandle),
                        !.seen = Remember(@, [id |-> id, name |-> name, mode |-> mode,
                                              required |-> required], opn'.handle)]
    /\ UNCHANGED <<pc, engine, polled, cacheVars, last, env, filemap,
                   fake_game_path, loaded_manifest, medium_paths, imported_files>>

(* ------------------------- LibretroIcarus (import) --------------------- *)
EmptyStore == [n \in {} |-> <<>>]

\* Location::file(filename): the last piece of the path.
LocationFile(filename) == filename[Len(filename)]

\* LibretroIcarus::write(filename, data, size): stored under the file name
\* without its directories.
IcarusWrite(store, filename, data) ==
    [n \in DOMAIN store \cup {LocationFile(filename)} |->
        IF n = LocationFile(filename) THEN data ELSE store[n]]

\* Program::fake_game_path = { "game.", BackendSpecific::medium_type }
FakeName == "game.sfc"

\* Icarus::import(fake_path) succeeding: the game folder is written through
\* LibretroIcarus::write: a generated manifest and the program ROM.
IcarusImported(store) ==
    IcarusWrite(IcarusWrite(store, <<"Emulation/", "game.sfc/", "manifest.bml">>,
                            <<98>> \o store[FakeName]),
                <<"Emulation/", "game.sfc/", "program.rom">>, store[FakeName])

\* What the detector answers: the first import(), the missing() list after a
\* failure, the second import().
MissingNames == {"dsp1.rom", "ipl.rom"}
MissingLists == UNION {[1..n -> MissingNames] : n \in 0..MaxMissing}
Detections ==
    {d \in [first : BOOLEAN, missing : MissingLists, second : BOOLEAN] :
        /\ d.first => d.missing = <<>>
        /\ d.missing = <<>> => d.second = d.first}

\* No import_rom call was made.
NoImport ==
    [ran |-> FALSE, first |-> FALSE, second |-> FALSE, ok |-> FALSE, imports |-> 0,
     asked |-> FALSE, missing |-> <<>>, resolved |-> <<>>, rom |-> <<>>,
     atFirst |-> EmptyStore, atSecond |-> EmptyStore]

RECURSIVE AppendMissing_Prepending(_, _, _, _, _, _)
\* AppendMissing putting each file in front of the buffer.
AppendMissing_Prepending(buffer, fs, ds, e, missing, i) ==
    IF i > Len(missing)
    THEN [ok |-> TRUE, buffer |-> buffer, dirs |-> ds, resolved |-> <<>>]
    ELSE LET path == LocateLibretro(fs, ds, e, <<missing[i]>>)
             ds2 == LocateDirs(fs, ds, e, <<missing[i]>>)
             data == IF path \in DOMAIN fs THEN fs[path] ELSE <<>>
             rest == AppendMissing_Prepending(data \o buffer, fs, ds2, e, missing, i + 1)
         IN  IF data = <<>>
             THEN [ok |-> FALSE, buffer |-> buffer, dirs |-> ds2,
                   resolved |-> <<missing[i]>>]
             ELSE [rest EXCEPT !.resolved = <<missing[i]>> \o @]

RECURSIVE AppendMissing(_, _, _, _, _, _)
\* import_rom, the loop over missing_files from the i-th on: the buffer under
\* fake_path, the directories, whether every file was read, and the names
\* that were resolved and read. file::read answers an empty vector for a file
\* it cannot read and for a file of no bytes, and the loop tests the vector.
AppendMissing(buffer, fs, ds, e, missing, i) ==
    IF i > Len(missing)
    THEN [ok |-> TRUE, buffer |-> buffer, dirs |-> ds, resolved |-> <<>>]
    ELSE LET path == LocateLibretro(fs, ds, e, <<missing[i]>>)
             ds2 == LocateDirs(fs, ds, e, <<missing[i]>>)
             data == IF path \in DOMAIN fs THEN fs[path] ELSE <<>>
             rest == AppendMissing(buffer \o data, fs, ds2, e, missing, i + 1)
         IN  IF data = <<>>
             THEN [ok |-> FALSE, buffer |-> buffer, dirs |-> ds2,
                   resolved |-> <<missing[i]>>]
             ELSE [rest EXCEPT !.resolved = <<missing[i]>> \o @]

\* What an import_rom call did: the detector's answers, the result, the
\* number of import() calls, whether missing() was asked, the names resolved
\* and read, and the store as it was at each import() call.
ImportObserved(rom, d, ok, imports, asked, resolved, atFirst, atSecond) ==
    [ran |-> TRUE, first |-> d.first, second |-> d.second, ok |-> ok,
     imports |-> imports, asked |-> asked,
     missing |-> IF asked THEN d.missing ELSE <<>>,
     resolved |-> resolved, rom |-> rom, atFirst |-> atFirst, atSecond |-> atSecond]

\* ImportRom calling import() again whenever the first call failed.
ImportRom_AlwaysTwice(fs, ds, e, rom, d) ==
    LET store0 == IcarusWrite(EmptyStore, <<FakeName>>, rom)
        r == AppendMissing(rom, fs, ds, e, d.missing, 1)
        store1 == IcarusWrite(store0, <<FakeName>>, r.buffer)
    IN  IF d.first
        THEN [ok |-> TRUE, store |-> IcarusImported(store0), dirs |-> ds, imports |-> 1,
              seen |-> ImportObserved(rom, d, TRUE, 1, FALSE, <<>>, store0, EmptyStore)]
        ELSE [ok |-> d.second,
              store |-> IF d.second THEN IcarusImported(store1) ELSE store1,
              dirs |-> r.dirs, imports |-> 2,
              seen |-> ImportObserved(rom, d, d.second, 2, TRUE, r.resolved,
                                      store0, store1)]

\* ImportRom asking for the missing files before the first import().
ImportRom_MissingFirst(fs, ds, e, rom, d) ==
    LET store0 == IcarusWrite(EmptyStore, <<FakeName>>, rom)
        r == AppendMissing(rom, fs, ds, e, d.missing, 1)
        store1 == IcarusWrite(store0, <<FakeName>>, r.buffer)
    IN  IF d.first
        THEN [ok |-> TRUE, store |-> IcarusImported(store1), dirs |-> r.dirs,
              imports |-> 1,
              seen |-> ImportObserved(rom, d, TRUE, 1, TRUE, r.resolved,
                                      store1, EmptyStore)]
        ELSE IF d.missing = <<>>
        THEN [ok |-> FALSE, store |-> store0, dirs |-> ds, imports |-> 1,
              seen |-> ImportObserved(rom, d, FALSE, 1, TRUE, <<>>, store0, EmptyStore)]
        ELSE IF ~r.ok
        THEN [ok |-> FALSE, store |-> store1, dirs |-> r.dirs, imports |-> 1,
              seen |-> ImportObserved(rom, d, FALSE, 1, TRUE, r.resolved,
                                      store0, EmptyStore)]
        ELSE [ok |-> d.second,
              store |-> IF d.second THEN IcarusImported(store1) ELSE store1,
              dirs |-> r.dirs, imports |-> 2,
              seen |-> ImportObserved(rom, d, d.second, 2, TRUE, r.resolved,
                                      store0, store1)]

\* ImportRom without icarus.reset().
ImportRom_NoReset(fs, ds, e, rom, d) ==
    LET store0 == IcarusWrite(imported_files, <<FakeName>>, rom)
        r == AppendMissing(rom, fs, ds, e, d.missing, 1)
        store1 == IcarusWrite(store0, <<FakeName>>, r.buffer)
    IN  IF d.first
        THEN [ok |-> TRUE, store |-> IcarusImported(store0), dirs |-> ds, imports |-> 1,
              seen |-> ImportObserved(rom, d, TRUE, 1, FALSE, <<>>, store0, EmptyStore)]
        ELSE IF d.missing = <<>>
        THEN [ok |-> FALSE, store |-> store0, dirs |-> ds, imports |-> 1,
              seen |-> ImportObserved(rom, d, FALSE, 1, TRUE, <<>>, store0, EmptyStore)]
        ELSE IF ~r.ok
        THEN [ok |-> FALSE, store |-> store1, dirs |-> r.dirs, imports |-> 1,
              seen |-> ImportObserved(rom, d, FALSE, 1, TRUE, r.resolved,
                                      store0, EmptyStore)]
        ELSE [ok |-> d.second,
              store |-> IF d.second THEN IcarusImported(store1) ELSE store1,
              dirs |-> r.dirs, imports |-> 2,
              seen |-> ImportObserved(rom, d, d.second, 2, TRUE, r.resolved,
                                      store0, store1)]

\* LibretroIcarus::import_rom(fake_path, rom_data, rom_size) with the
\* detector answering d: the result, the store and the directories after it,
\* the number of import() calls made, and what the call did.
ImportRom(fs, ds, e, rom, d) ==
    LET store0 == IcarusWrite(EmptyStore, <<FakeName>>, rom)
        r == AppendMissing(rom, fs, ds, e, d.missing, 1)
        store1 == IcarusWrite(store0, <<FakeName>>, r.buffer)
    IN  IF d.first
        THEN [ok |-> TRUE, store |-> IcarusImported(store0), dirs |-> ds, imports |-> 1,
              seen |-> ImportObserved(rom, d, TRUE, 1, FALSE, <<>>, store0, EmptyStore)]
        ELSE IF d.missing = <<>>
        THEN [ok |-> FALSE, store |-> store0, dirs |-> ds, imports |-> 1,
              seen |-> ImportObserved(rom, d, FALSE, 1, TRUE, <<>>, store0, EmptyStore)]
        ELSE IF ~r.ok
        THEN [ok |-> FALSE, store |-> store1, dirs |-> r.dirs, imports |-> 1,
              seen |-> ImportObserved(rom, d, FALSE, 1, TRUE, r.resolved,
                                      store0, EmptyStore)]
        ELSE [ok |-> d.second,
              store |-> IF d.second THEN IcarusImported(store1) ELSE store1,
              dirs |-> r.dirs, imports |-> 2,
              seen |-> ImportObserved(rom, d, d.second, 2, TRUE, r.resolved,
                                      store0, store1)]

(* ---------------------------- retro_load_game -------------------------- *)
\* retro_game_info: the game g, with a ROM path, a manifest path or no path.
GameKinds == {"rom", "bml", "nopath"}
Games == [g : 1..MaxGame, kind : GameKinds]

GameData(game) == <<100 + game.g>>
GameDir == <<"roms/">>
GamePrefix == <<"game">>
GameSuffix(game) == IF game.kind = "bml" THEN <<".bml">> ELSE <<".sfc">>

\* Hash::SHA256(data).digest()
Sha256(data) == ToString(data[1])

LoadStarted(game) ==
    [g |-> game.g, kind |-> game.kind, opens |-> ld.opens, requiredFailed |-> FALSE,
     result |-> "running",
     load |-> FALSE, isLoaded |-> FALSE, powered |-> FALSE, imp |-> NoImport,
     seen |-> IF game.kind = "bml" THEN ld.seen ELSE NoneSeen]

\* retro_load_game returning false because SET_PIXEL_FORMAT is refused.
RetroLoadGameRefused ==
    /\ pc = "idle"
    /\ last' = Observed("retro_load_game", 0, FALSE, 0, 0)
    /\ ld' = [ld EXCEPT !.result = "pixel format", !.load = FALSE,
                        !.isLoaded = FALSE, !.powered = FALSE]
    /\ UNCHANGED <<pc, engine, polled, cacheVars, progVars, diskVars, opn>>

\* The base path of the medium for a game that is not a manifest.
SavePath(game, ds) ==
    IF game.kind = "rom"
    THEN IF env.save # NoDir
         THEN <<env.save, "/">> \o GamePrefix \o GameSuffix(game) \o <<".">>
         ELSE GameDir \o GamePrefix \o <<".">>
    ELSE IF env.save # NoDir
         THEN <<env.save, "/", Sha256(GameData(game)), ".sfc/">>
         ELSE LocateLibretro(files, ds, env, <<Sha256(GameData(game)), ".sfc/">>)

\* The directories after the base path of a game without a path was set up.
SavePathDirs(game, ds) ==
    IF game.kind = "rom" THEN ds
    ELSE IF env.save # NoDir THEN ds \cup {SavePath(game, ds)}
    ELSE LocateDirs(files, ds, env, <<Sha256(GameData(game)), ".sfc/">>)
             \cup {SavePath(game, ds)}

\* RetroLoadGameEnter without the reset of loaded_manifest.
RetroLoadGameEnter_KeepsManifest(game, d) ==
    /\ pc = "idle"
    /\ LET sys == <<"Super Famicom", ".sys/">>
           ds1 == LocateDirs(files, dirs, env, sys)
           sysPath == LocateLibretro(files, dirs, env, sys)
           imp == ImportRom(files, SavePathDirs(game, ds1), env, GameData(game), d)
       IN  IF game.kind = "bml"
           THEN /\ medium_paths' = [medium_paths EXCEPT ![system_id] = sysPath,
                                                        ![medium_id] = GameDir]
                /\ loaded_manifest' = GameData(game)
                /\ fake_game_path' = ""
                /\ dirs' = ds1
                /\ pc' = "retro_load_game"
                /\ ld' = LoadStarted(game)
                /\ UNCHANGED <<imported_files, last, win>>
           ELSE /\ medium_paths' = [medium_paths EXCEPT ![system_id] = sysPath,
                                                        ![medium_id] = SavePath(game, ds1)]
                /\ UNCHANGED loaded_manifest
                /\ fake_game_path' = FakeName
                /\ imported_files' = imp.store
                /\ dirs' = imp.dirs
                /\ IF imp.ok
                   THEN /\ pc' = "retro_load_game"
                        /\ ld' = [LoadStarted(game) EXCEPT !.imp = imp.seen]
                        /\ UNCHANGED <<last, win>>
                   ELSE /\ pc' = "idle"
                        /\ ld' = [LoadStarted(game) EXCEPT !.result = "import",
                                                            !.imp = imp.seen]
                        /\ last' = Observed("retro_load_game", 0, FALSE, 0, 0)
                        /\ win' = [win EXCEPT !.other = TRUE]
    /\ UNCHANGED <<engine, polled, has_cached_serialize, cached_serialize, buf,
                   failed, files, env, filemap, opn>>

\* retro_load_game(game) up to the call of emulator->load(): the slot paths,
\* the manifest or the import; it returns false when the import fails.
RetroLoadGameEnter(game, d) ==
    /\ pc = "idle"
    /\ LET sys == <<"Super Famicom", ".sys/">>
           ds1 == LocateDirs(files, dirs, env, sys)
           sysPath == LocateLibretro(files, dirs, env, sys)
           imp == ImportRom(files, SavePathDirs(game, ds1), env, GameData(game), d)
       IN  IF game.kind = "bml"
           THEN /\ medium_paths' = [medium_paths EXCEPT ![system_id] = sysPath,
                                                        ![medium_id] = GameDir]
                /\ loaded_manifest' = GameData(game)
                /\ fake_game_path' = ""
                /\ dirs' = ds1
                /\ pc' = "retro_load_game"
                /\ ld' = LoadStarted(game)
                /\ UNCHANGED <<imported_files, last, win>>
           ELSE /\ medium_paths' = [medium_paths EXCEPT ![system_id] = sysPath,
                                                        ![medium_id] = SavePath(game, ds1)]
                /\ loaded_manifest' = <<>>
                /\ fake_game_path' = FakeName
                /\ imported_files' = imp.store
                /\ dirs' = imp.dirs
                /\ IF imp.ok
                   THEN /\ pc' = "retro_load_game"
                        /\ ld' = [LoadStarted(game) EXCEPT !.imp = imp.seen]
                        /\ UNCHANGED <<last, win>>
                   ELSE /\ pc' = "idle"
                        /\ ld' = [LoadStarted(game) EXCEPT !.result = "import",
                                                            !.imp = imp.seen]
                        /\ last' = Observed("retro_load_game", 0, FALSE, 0, 0)
                        /\ win' = [win EXCEPT !.other = TRUE]
    /\ UNCHANGED <<engine, polled, has_cached_serialize, cached_serialize, buf,
                   failed, files, env, filemap, opn>>

\* RetroLoadGameReturn without the test of Program::failed.
RetroLoadGameReturn_FlagUnchecked(ok, isLoaded) ==
    /\ pc = "retro_load_game"
    /\ pc' = "idle"
    /\ LET loadedEngine == [loaded |-> isLoaded, game |-> ld.g, st |-> engine.st]
           result == IF ~ok THEN "load"
                     ELSE IF ~isLoaded THEN "not loaded"
                     ELSE "ok"
       IN  /\ ld' = [ld EXCEPT !.result = result, !.load = ok,
                               !.isLoaded = ok /\ isLoaded, !.powered = result = "ok"]
           /\ last' = Observed("retro_load_game", 0, result = "ok", 0, 0)
           /\ IF result = "ok"
              THEN /\ engine' = EnginePower(loadedEngine)
                   /\ has_cached_serialize' = FALSE
                   /\ win' = OpenWindow("retro_load_game")
              ELSE /\ engine' = loadedEngine
                   /\ win' = [win EXCEPT !.other = TRUE]
                   /\ UNCHANGED has_cached_serialize
    /\ opn' = NoOpen
    /\ UNCHANGED <<polled, cached_serialize, buf, progVars, diskVars>>

\* retro_load_game, from the return of emulator->load() on. The engine
\* answers ok (load() returned true) and isLoaded (loaded()).
RetroLoadGameReturn(ok, isLoaded) ==
    /\ pc = "retro_load_game"
    /\ pc' = "idle"
    /\ LET loadedEngine == [loaded |-> isLoaded, game |-> ld.g, st |-> engine.st]
           result == IF ~ok THEN "load"
                     ELSE IF failed THEN "failed"
                     ELSE IF ~isLoaded THEN "not loaded"
                     ELSE "ok"
       IN  /\ ld' = [ld EXCEPT !.result = result, !.load = ok,
                               !.isLoaded = ok /\ isLoaded, !.powered = result = "ok"]
           /\ last' = Observed("retro_load_game", 0, result = "ok", 0, 0)
           /\ IF result = "ok"
              THEN /\ engine' = EnginePower(loadedEngine)
                   /\ has_cached_serialize' = FALSE
                   /\ win' = OpenWindow("retro_load_game")
              ELSE /\ engine' = loadedEngine
                   /\ win' = [win EXCEPT !.other = TRUE]
                   /\ UNCHANGED has_cached_serialize
    /\ opn' = NoOpen
    /\ UNCHANGED <<polled, cached_serialize, buf, progVars, diskVars>>

\* retro_unload_game(), up to emulator->unload().
RetroUnloadGameEnter ==
    /\ pc = "idle" /\ engine.loaded
    /\ pc' = "retro_unload_game"
    /\ ld' = [ld EXCEPT !.requiredFailed = FALSE]
    /\ last' = Observed("retro_unload_game", 0, TRUE, 0, 0)
    /\ win' = [win EXCEPT !.other = TRUE]
    /\ UNCHANGED <<engine, polled, has_cached_serialize, cached_serialize, buf,
                   progVars, diskVars, opn>>

\* retro_unload_game(): emulator->unload() returns.
RetroUnloadGameReturn ==
    /\ pc = "retro_unload_game"
    /\ pc' = "idle"
    /\ engine' = [engine EXCEPT !.loaded = FALSE]
    /\ opn' = NoOpen
    /\ UNCHANGED <<polled, cacheVars, progVars, diskVars, last, ld>>

(* ------------------------------ nall::filemap -------------------------- *)
\* A null p_handle and a p_fd that is no descriptor.
NullPtr == "nullptr"
NoFd == 0 - 1

\* filemap(): p_handle and p_size as initialised, p_fd as p_ctor sets it.
p_ctor == [p_handle |-> NullPtr, p_size |-> 0, p_fd |-> NoFd]

(* ------------------------------ behaviours ----------------------------- *)
\* The files a disk can hold when the core starts.
DiskFiles ==
    (<<"sys", "/higan/", "dsp1.rom">> :> <<61>>) @@
    (<<"sys", "/higan/", "program.rom">> :> <<51>>) @@
    (<<"config/", "higan/", "program.rom">> :> <<52>>) @@
    (<<"roms/", "game", ".", "save.ram">> :> <<70>>) @@
    (<<"save", "/higan/", "save.ram">> :> <<71>>)

InitDirs ==
    {<<>>, <<"roms/">>, <<"sys", "/higan/">>, <<"save", "/">>, <<"save", "/higan/">>,
     <<"config/", "higan/">>}

\* The state after retro_init(): a new Program, an empty store.
InitProgram ==
    /\ pc = "idle"
    /\ engine = [loaded |-> FALSE, game |-> 0, st |-> 0]
    /\ has_cached_serialize = FALSE
    /\ cached_serialize = <<>>
    /\ polled = FALSE
    /\ failed = FALSE
    /\ fake_game_path = ""
    /\ loaded_manifest = <<>>
    /\ medium_paths = [s \in Slots |-> <<>>]
    /\ imported_files = EmptyStore
    /\ filemap = p_ctor
    /\ buf = PoisonBuf
    /\ last = Observed("retro_init", 0, TRUE, 0, 0)
    /\ win = [via |-> "retro_init", q |-> 0, ser |-> 0, other |-> FALSE,
              sized |-> NoSize, stale |-> NoSnap]
    /\ opn = NoOpen
    /\ ld = [g |-> 0, kind |-> "none", opens |-> 0, requiredFailed |-> FALSE,
             result |-> "none",
             load |-> FALSE, isLoaded |-> FALSE, powered |-> FALSE, imp |-> NoImport,
             seen |-> NoneSeen]

\* The serialize cache: one disk, a frontend with a save directory.
InitCache ==
    /\ InitProgram
    /\ files = DiskFiles
    /\ dirs = InitDirs
    /\ env = [sys |-> "sys", save |-> "save"]

\* The dispatcher: a frontend that declares its directories or none.
InitOpen ==
    /\ InitProgram
    /\ files = DiskFiles
    /\ dirs = InitDirs
    /\ env \in {[sys |-> "sys", save |-> "save"], [sys |-> NoDir, save |-> NoDir]}

\* The detector accepting the ROM at once, or rejecting it outright.
PlainDetections == {d \in Detections : d.missing = <<>>}

\* Loading and unloading, for the serialize cache: ROMs the detector accepts.
LoadRom ==
    \/ \E g \in 1..MaxGame :
          RetroLoadGameEnter([g |-> g, kind |-> "rom"],
                             [first |-> TRUE, missing |-> <<>>, second |-> TRUE])
    \/ \E ok \in BOOLEAN : RetroLoadGameReturn(ok, ok)
    \/ RetroUnloadGameEnter
    \/ RetroUnloadGameReturn

\* Loading and unloading, for the dispatcher: one game, as a ROM, as a
\* manifest or without a path.
Load ==
    \/ RetroLoadGameRefused
    \/ \E kind \in GameKinds, d \in PlainDetections :
          RetroLoadGameEnter([g |-> 1, kind |-> kind], d)
    \/ \E ok \in BOOLEAN, isLoaded \in BOOLEAN : RetroLoadGameReturn(ok, isLoaded)

Serialize ==
    \/ RetroReset
    \/ RetroRunEnter
    \/ RetroRunReturn
    \/ RetroSerializeSize
    \/ \E size \in 0..BufCap : RetroSerialize(size)
    \/ \E data \in UnserializeInputs : RetroUnserialize(data)
    \/ RetroCheatReset
    \/ RetroCheatSet

Opens ==
    \E id \in Slots, name \in Names, mode \in Modes, required \in BOOLEAN :
        ld.opens < MaxOpens /\ Open(id, name, mode, required)

\* The engine asking for the save RAM of the medium, to read or to write.
Reopens ==
    \E request \in Watched :
        /\ ld.opens < MaxReopens
        /\ Open(request.id, request.name, request.mode, request.required)

NextCache == Serialize \/ LoadRom
NextOpen == Opens \/ Load

SpecCache == InitCache /\ [][NextCache]_vars
SpecOpen == InitOpen /\ [][NextOpen]_vars

NextReopen == Reopens \/ Load
SpecReopen == InitOpen /\ [][NextReopen]_vars

(* ------------------------- the serialize cache ------------------------- *)
\* C1: when retro_serialize_size() returned n and retro_serialize(buf, n)
\* follows with no retro_run, retro_unserialize, retro_cheat_set or
\* retro_cheat_reset in between, retro_serialize returns true and buf holds
\* the bytes the engine's serialize() produces at that moment.
C1_SerializeAfterSizeIsCurrent ==
    (last.op = "retro_serialize" /\ win.sized # NoSize /\ last.size = win.sized)
        => /\ last.ok
           /\ Prefix(buf, last.size) = EngineSerialize(engine)

\* C2: the cache is Invalid once retro_run has begun, after an accepted
\* retro_unserialize and after retro_cheat_set / retro_cheat_reset; and a
\* retro_serialize that is the first query after a retro_run invokes the
\* engine's serialize(), succeeds exactly on the size of the post-step
\* snapshot, and then hands out the post-step bytes.
C2_RunInvalidatesTheCache ==
    /\ pc = "retro_run" => ~has_cached_serialize
    /\ last.op \in {"retro_run", "retro_cheat_set", "retro_cheat_reset"}
          => ~has_cached_serialize
    /\ (last.op = "retro_unserialize" /\ last.ok) => ~has_cached_serialize
    /\ (last.op = "retro_serialize" /\ win.via = "retro_run" /\ win.q = 1)
          => /\ last.ser = 1
             /\ last.ok <=> (last.size = Len(EngineSerialize(engine)))
             /\ last.ok => Prefix(buf, last.size) = EngineSerialize(engine)

\* A snapshot was cached, a step ran, and retro_serialize with the old size
\* handed out bytes that differ from the old snapshot.
C2_Witness ==
    /\ last.op = "retro_serialize" /\ win.via = "retro_run" /\ win.q = 1
    /\ win.stale # NoSnap /\ Len(win.stale) = last.size
    /\ last.ok /\ Prefix(buf, last.size) # win.stale

\* C3: retro_serialize(buf, size) with size different from the size of the
\* cached snapshot returns false and leaves every byte of buf as it was; with
\* the snapshot's size it returns true and copies exactly size bytes.
C3_SizeMismatchWritesNothing ==
    last.op = "retro_serialize" =>
        IF last.size # Len(cached_serialize)
        THEN ~last.ok /\ buf = PoisonBuf
        ELSE /\ last.ok
             /\ Prefix(buf, last.size) = cached_serialize
             /\ \A i \in (last.size + 1)..BufCap : buf[i] = Poison

\* retro_serialize computed the snapshot and refused a smaller size.
C3_Witness ==
    /\ last.op = "retro_serialize" /\ last.ser = 1 /\ ~last.ok
    /\ 0 < last.size /\ last.size < Len(cached_serialize)
    /\ buf = PoisonBuf

\* C4: in the window that an invalidating event opens, the queries
\* (retro_serialize_size, retro_serialize) invoke the engine's serialize()
\* once altogether, on the first of them, and not at all when there is none.
C4_SerializeOncePerWindow ==
    /\ win.q = 0 => win.ser = 0
    /\ win.q >= 1 => win.ser = 1

\* Two or more queries followed a retro_cheat_set, the last a retro_serialize.
C4_Witness ==
    /\ win.via = "retro_cheat_set" /\ win.q >= 2 /\ win.ser = 1
    /\ last.op = "retro_serialize" /\ last.ser = 0

(* ----------------------------- Program::open --------------------------- *)
\* A Program::open call was made in the engine call in progress; opn holds it.
Opened == opn.mode # "none"

BuiltinNames == {"manifest.bml", "ipl.rom"}

\* The request is one the first tier answers: the game manifest.
AsksGameManifest ==
    opn.name = "manifest.bml" /\ opn.id # system_id /\ loaded_manifest # <<>>

\* The request is one the second tier answers: a built-in system file.
AsksBuiltin == opn.id = system_id /\ opn.name \in BuiltinNames

\* C5: open of "manifest.bml" on a slot other than the system slot, while a
\* manifest is loaded, returns the loaded manifest's bytes as an in-memory
\* handle, whatever the store and the disk hold and whatever the mode, and
\* leaves the failure flag as it was.
C5_LoadedManifestWins ==
    (Opened /\ AsksGameManifest)
        => /\ opn.handle = MemoryFile(loaded_manifest)
           /\ failed = opn.failedBefore

\* The loaded manifest was returned, in write mode, although the store holds
\* another manifest.bml from an earlier import.
C5_Witness ==
    /\ Opened /\ AsksGameManifest /\ opn.mode = "write"
    /\ "manifest.bml" \in DOMAIN imported_files
    /\ imported_files["manifest.bml"] # loaded_manifest
    /\ opn.handle = MemoryFile(loaded_manifest)

\* C6: open on the system slot of "manifest.bml" or "ipl.rom" returns the
\* built-in constant, never the game's loaded or imported manifest, in every
\* state, and leaves the failure flag as it was.
C6_SystemSlotGetsBuiltin ==
    (Opened /\ AsksBuiltin)
        => /\ opn.handle = MemoryFile(IF opn.name = "manifest.bml"
                                      THEN BuiltinManifest ELSE BuiltinIplRom)
           /\ failed = opn.failedBefore

\* The system manifest was returned while a game manifest was loaded and
\* another one was in the store.
C6_Witness ==
    /\ Opened /\ opn.id = system_id /\ opn.name = "manifest.bml"
    /\ loaded_manifest # <<>>
    /\ "manifest.bml" \in DOMAIN imported_files
    /\ opn.handle = MemoryFile(BuiltinManifest)

\* C7: when neither the game manifest nor a built-in file is asked for and
\* the store holds the name, open returns the store's bytes as an in-memory
\* handle in either mode, composes no path, does not consult the path
\* resolver and leaves the failure flag as it was.
C7_StoreAnswersWhenTiers12DoNot ==
    (Opened /\ ~AsksGameManifest /\ ~AsksBuiltin /\ opn.name \in DOMAIN imported_files)
        => /\ opn.handle = MemoryFile(imported_files[opn.name])
           /\ opn.path = <<>> /\ ~opn.located
           /\ failed = opn.failedBefore

\* C8: when no in-memory tier holds the name, open opens the slot's base
\* path followed by the name; only a read of a path that does not exist is
\* redirected to the path resolver's answer, and a write never is.
C8_DiskPathIsBasePlusName ==
    (Opened /\ ~AsksGameManifest /\ ~AsksBuiltin /\ opn.name \notin DOMAIN imported_files)
        => LET p0 == medium_paths[opn.id] \o <<opn.name>>
           IN  IF opn.mode = "read" /\ ~Exists(files, dirs, p0)
               THEN /\ opn.located
                    /\ opn.path = LocateLibretro(files, dirs, env, <<opn.name>>)
               ELSE ~opn.located /\ opn.path = p0

C10_AbortOnlyOnOwnFailure ==
    ld.result = "failed" => ld.requiredFailed

(* --------------------------- retro_load_game --------------------------- *)
\* A retro_load_game call that reached emulator->load() has returned.
LoadReturned == pc = "idle" /\ ld.result \in {"load", "failed", "not loaded", "ok"}

\* C11: a retro_load_game call whose failure flag is set when the engine's
\* load() has returned returns false and runs no power(); the call returns
\* true only if the import or the manifest load succeeded, load() returned
\* true, the flag is clear and the engine reports loaded(), and then it does.
C11_FailureFlagAbortsLoad ==
    /\ (LoadReturned /\ failed) => (~last.ok /\ ~ld.powered)
    /\ LoadReturned => (last.ok <=> (ld.load /\ ~failed /\ ld.isLoaded))
    /\ (pc = "idle" /\ ld.result \in {"import", "pixel format"}) => ~last.ok
    /\ ld.powered <=> (LoadReturned /\ last.ok)

\* The engine loaded the game and reports it loaded, yet the call returned
\* false without power() because a required open failed.
C11_Witness ==
    /\ LoadReturned /\ ld.load /\ ld.isLoaded /\ failed /\ ld.requiredFailed
    /\ ~last.ok /\ ~ld.powered

(* ------------------------------ import_rom ----------------------------- *)
\* Disks for the import: each auxiliary file is absent, empty or present.
EmptyDisk == [p \in {} |-> <<>>]
FileOrNone(p, contents) == {EmptyDisk} \cup {p :> b : b \in contents}
ImportDisks ==
    {a @@ b : a \in FileOrNone(<<"sys", "/higan/", "dsp1.rom">>, {<<>>, <<61>>}),
              b \in FileOrNone(<<ConfigDir, "higan/", "ipl.rom">>, {<<>>, <<62>>})}

\* The detector's answers, the missing() list being what it is whether or
\* not import_rom asks for it.
AnyDetections == [first : BOOLEAN, missing : MissingLists, second : BOOLEAN]

InitImport ==
    /\ InitProgram
    /\ files \in ImportDisks
    /\ dirs = InitDirs
    /\ env \in {[sys |-> "sys", save |-> "save"], [sys |-> NoDir, save |-> NoDir]}

\* Loads that import: a ROM with a path or without one.
Import ==
    \/ \E kind \in {"rom", "nopath"}, d \in AnyDetections :
          RetroLoadGameEnter([g |-> 1, kind |-> kind], d)
    \/ \E ok \in BOOLEAN, isLoaded \in BOOLEAN : RetroLoadGameReturn(ok, isLoaded)

SpecImport == InitImport /\ [][Import]_vars

\* locate_libretro(name) for a missing file, and what file::read finds there.
Located(name) == LocateLibretro(files, dirs, env, <<name>>)
OnDisk(name) == Located(name) \in DOMAIN files
WasRead(name) == OnDisk(name) /\ files[Located(name)] # <<>>

RECURSIVE BytesOf(_)
\* The bytes of the files of a list of names, in the order of the list.
BytesOf(names) ==
    IF names = <<>> THEN <<>>
    ELSE (IF OnDisk(Head(names)) THEN files[Located(Head(names))] ELSE <<>>)
             \o BytesOf(Tail(names))

\* The import_rom call of the load asked the detector for missing files and
\* got some.
ImportRetried == ld.imp.ran /\ ~ld.imp.first /\ ld.imp.missing # <<>>

\* C12: when the first import() fails and every missing file is found and
\* read, the buffer under the synthetic name at the second import() is the
\* primary bytes followed by the bytes of the missing files in report order;
\* when one of them cannot be read import_rom returns false.
C12_AppendsInReportOrder ==
    ImportRetried =>
        /\ ld.imp.imports = 2 =>
              ld.imp.atSecond[FakeName] = ld.imp.rom \o BytesOf(ld.imp.missing)
        /\ (\A i \in 1..Len(ld.imp.missing) : WasRead(ld.imp.missing[i]))
              => ld.imp.imports = 2
        /\ (\E i \in 1..Len(ld.imp.missing) : ~OnDisk(ld.imp.missing[i]))
              => (~ld.imp.ok /\ ld.imp.imports = 1)

\* Two different files were appended, the second-reported one last.
C12_Witness ==
    /\ ImportRetried /\ ld.imp.imports = 2
    /\ ld.imp.missing = <<"ipl.rom", "dsp1.rom">>
    /\ ld.imp.atSecond[FakeName] = ld.imp.rom \o <<62, 61>>

\* C13: import_rom calls import() once, and once more exactly when the first
\* call failed, missing files were reported and all of them were read; the
\* result of the last import() called is the result of import_rom, also when
\* the second call fails.
C13_AtMostTwoImports ==
    ld.imp.ran =>
        /\ ld.imp.imports \in {1, 2}
        /\ ld.imp.imports = 2 <=>
              (ImportRetried /\ \A i \in 1..Len(ld.imp.missing) : WasRead(ld.imp.missing[i]))
        /\ ld.imp.ok = (IF ld.imp.imports = 2 THEN ld.imp.second ELSE ld.imp.first)

\* The second import() failed and import_rom returned false after two calls.
C13_Witness ==
    /\ ImportRetried /\ ld.imp.imports = 2 /\ ~ld.imp.second /\ ~ld.imp.ok
    /\ ld.result = "import"

\* C14: when the first import() succeeds import_rom returns true without
\* asking for missing files or resolving a name; when it fails and no file
\* is missing import_rom returns false without resolving a name and without
\* a second import().
C14_NoDiskWorkWithoutMissing ==
    ld.imp.ran =>
        /\ ld.imp.first =>
              (ld.imp.ok /\ ~ld.imp.asked /\ ld.imp.resolved = <<>> /\ ld.imp.imports = 1)
        /\ (~ld.imp.first /\ ld.imp.missing = <<>>) =>
              (~ld.imp.ok /\ ld.imp.resolved = <<>> /\ ld.imp.imports = 1)

\* The first import() failed with nothing missing, on a disk that holds the
\* auxiliary files.
C14_Witness ==
    /\ ld.imp.ran /\ ~ld.imp.first /\ ld.imp.asked /\ ld.imp.missing = <<>>
    /\ ~ld.imp.ok /\ ld.imp.imports = 1
    /\ OnDisk("dsp1.rom") /\ OnDisk("ipl.rom")

\* The first missing name whose file is not found, or one past the list.
FirstUnreadable(missing) ==
    LET bad == {i \in 1..Len(missing) : ~OnDisk(missing[i])}
    IN  IF bad = {} THEN Len(missing) + 1
        ELSE CHOOSE i \in bad : \A j \in bad : i <= j

\* C15: the names of the missing list are resolved and read in order; a file
\* that is found is appended whatever its length, and only a file that cannot
\* be read stops the loop: import_rom then returns false, resolves no later
\* name and calls import() no second time.
C15_OnlyUnreadableAborts ==
    ImportRetried =>
        LET k == FirstUnreadable(ld.imp.missing)
        IN  /\ ld.imp.resolved = SubSeq(ld.imp.missing, 1, Min(k, Len(ld.imp.missing)))
            /\ ld.imp.imports = 2 <=> k > Len(ld.imp.missing)
            /\ k <= Len(ld.imp.missing) => ~ld.imp.ok

\* C17: at the first import() of an import_rom call the store holds the
\* primary bytes under the synthetic name and nothing else, and at a second
\* import() it still holds that one name: the reset and the insertion of the
\* same call precede every import().
C17_ResetPrecedesEveryImport ==
    /\ ld.imp.ran =>
          /\ DOMAIN ld.imp.atFirst = {FakeName}
          /\ ld.imp.atFirst[FakeName] = ld.imp.rom
          /\ ld.imp.imports = 2 => DOMAIN ld.imp.atSecond = {FakeName}
    /\ ld.imp.imports > 0 => ld.imp.ran

\* A load imports after an earlier load had succeeded and left its files in
\* the store.
C17_Witness ==
    /\ pc = "retro_load_game" /\ ld.imp.ran /\ ld.imp.imports = 2
    /\ last.op = "retro_load_game" /\ last.ok
    /\ DOMAIN ld.imp.atFirst = {FakeName}

(* --------------------------- the virtual store ------------------------- *)
\* C16: every retro_load_game call, of a ROM or of a manifest, resets the
\* store once, so that no Program::open of a load returns a store entry that
\* an earlier load inserted: an open answered by the store belongs to a load
\* whose import_rom call reset and filled the store.
C16_NoStoreEntryOfEarlierLoad ==
    (Opened /\ opn.tier = 3) => ld.imp.ran

(* ----------------------- the dispatcher, asked twice ------------------- *)
\* The request of the last Program::open call.
Request == [id |-> opn.id, name |-> opn.name, mode |-> opn.mode, required |-> opn.required]

\* C18: a request (slot, name, mode, required) made again with no reset of
\* the store since it was first made returns what it returned the first
\* time, both nothing or both the same bytes, whatever opens, writes
\* included, were made in between.
C18_SameRequestSameAnswer ==
    (Opened /\ Request \in DOMAIN ld.seen) => Returned(opn.handle) = ld.seen[Request]

(* ---------------------------- the path resolver ------------------------ *)
\* Program::open asked the path resolver for the name.
Resolved == Opened /\ opn.located

\* C19: the path resolver returns the first location where the file exists
\* among <system dir>/higan/name, <save dir>/higan/name, <config dir>/higan/
\* name, and the local fallback otherwise; a file that is only in the save
\* directory is returned from there.
C19_FourTiersInOrder ==
    Resolved => opn.path = Locate(files, dirs, env, <<opn.name>>)

\* C20: the path resolver always returns a path; when the file is in no
\* earlier tier, or the frontend declares no directory, the path is <local
\* dir>/higan/name whether or not a file is there, and the directory <local
\* dir>/higan/ exists afterwards.
C20_FallbackIsUnconditional ==
    Resolved =>
        /\ opn.path # <<>>
        /\ LocateTier(files, dirs, env, <<opn.name>>) = 3 =>
              /\ opn.path = <<LocalDir, "higan/", opn.name>>
              /\ <<LocalDir, "higan/">> \in dirs

\* With a frontend that declares no directory, a name that is in no tier was
\* resolved to the fallback location, where no file is, and the open failed.
C20_Witness ==
    /\ Resolved /\ env.sys = NoDir /\ env.save = NoDir
    /\ opn.path = <<LocalDir, "higan/", opn.name>>
    /\ opn.path \notin DOMAIN files
    /\ <<LocalDir, "higan/">> \in dirs
    /\ opn.handle = NoHandle

(* ------------------- the path resolver and the disk -------------------- *)
\* A disk where program.rom is in the system directory and in the fallback
\* directory as well, and a disk where the system directory holds the system
\* folder and the fallback directory does not exist yet.
LocateDisks ==
    {[files |-> DiskFiles @@ (<<LocalDir, "higan/", "program.rom">> :> <<53>>),
      dirs |-> InitDirs \cup {<<LocalDir, "higan/">>}],
     [files |-> DiskFiles,
      dirs |-> InitDirs \cup {<<"sys", "/higan/", "Super Famicom", ".sys/">>}]}

InitLocate ==
    /\ InitProgram
    /\ \E disk \in LocateDisks : files = disk.files /\ dirs = disk.dirs
    /\ env \in {[sys |-> "sys", save |-> "save"], [sys |-> NoDir, save |-> NoDir]}

\* The engine reading files of the medium.
Resolves ==
    \E name \in Names, required \in BOOLEAN :
        ld.opens < MaxOpens /\ Open(medium_id, name, "read", required)

NextLocate == Resolves \/ Load
SpecLocate == InitLocate /\ [][NextLocate]_vars

\* The path of a name in the frontend's system directory and in the fallback.
SystemPath(name) == <<env.sys, "/higan/", name>>
FallbackPath(name) == <<LocalDir, "higan/", name>>

\* C21: when the file exists in the frontend's system directory, and in the
\* fallback directory as well, the path resolver returns the path in the
\* system directory, and the call creates no directory.
C21_SystemDirWinsWithoutCreating ==
    (Resolved /\ env.sys # NoDir /\ SystemPath(opn.name) \in DOMAIN files) =>
        /\ opn.path = SystemPath(opn.name)
        /\ ~opn.created

\* program.rom, which is in both directories, was resolved to the system
\* directory and read from there.
C21_Witness ==
    /\ Resolved /\ env.sys # NoDir
    /\ SystemPath(opn.name) \in DOMAIN files
    /\ FallbackPath(opn.name) \in DOMAIN files
    /\ opn.path = SystemPath(opn.name)
    /\ opn.handle = DiskFile(SystemPath(opn.name), "read", files[SystemPath(opn.name)])

(* ------------------------ the name of the save RAM --------------------- *)
\* The last Program::open call went to the disk: it composed a path.
WentToDisk == Opened /\ opn.path # <<>>

\* C22: when the slot is not the system slot and no manifest is loaded, a
\* request for "save.ram" is renamed before the disk path is composed: the
\* path opened on disk does not end in "save.ram".
C22_SaveRamIsRenamed ==
    (WentToDisk /\ opn.id # system_id /\ loaded_manifest = <<>> /\ opn.name = "save.ram") =>
        opn.path[Len(opn.path)] # "save.ram"

(* ------------- the multi-system variant of the entry points ------------ *)
\* The variant of the file that bakes in icarus and selects the emulator by
\* the suffix of the game: its retro_load_game, Program::open and retro_run
\* differ; its other entry points are the same code.

\* icarus.import(location): the game folder made from the ROM, or the empty
\* string when the import fails.
ImportedPath == <<LocalDir, "Emulation/", "game", ".sfc/">>
IcarusImport(location) == {<<>>, ImportedPath}

\* retro_load_game returning false at once: an emulator is already selected
\* (engine.game # 0), or SET_PIXEL_FORMAT is refused.
MultiRetroLoadGameRefused ==
    /\ pc = "idle"
    /\ last' = Observed("retro_load_game", 0, FALSE, 0, 0)
    /\ ld' = [ld EXCEPT !.result = IF engine.game # 0 THEN "emulator" ELSE "pixel format",
                        !.load = FALSE, !.isLoaded = FALSE, !.powered = FALSE]
    /\ UNCHANGED <<pc, engine, polled, cacheVars, progVars, diskVars, opn>>

\* retro_load_game(game) up to the call of emulator->load(): the emulator of
\* the "sfc" medium is selected, the system path is appended and the path of
\* the game is stored as the base path of the medium.
MultiRetroLoadGameEnter(game) ==
    /\ pc = "idle" /\ engine.game = 0
    /\ LET sys == <<"Super Famicom", ".sys/">>
           location == GameDir \o GamePrefix \o GameSuffix(game)
       IN  /\ medium_paths' = [medium_paths EXCEPT
                                  ![system_id] = LocateLibretro(files, dirs, env, sys),
                                  ![medium_id] = location]
           /\ dirs' = LocateDirs(files, dirs, env, sys)
    /\ engine' = [engine EXCEPT !.game = game.g]
    /\ pc' = "retro_load_game"
    /\ ld' = LoadStarted(game)
    /\ UNCHANGED <<polled, cacheVars, failed, fake_game_path, loaded_manifest,
                   imported_files, files, env, filemap, last, opn>>

\* Program::open(id, name, mode, required) of the variant: the manifest of
\* a slot that is not a system folder is made by icarus.import, whose result
\* replaces the base path of the slot; anything else is opened on disk.
MultiOpen(id, name, mode, required) ==
    /\ pc \in {"retro_load_game", "retro_unload_game"}
    /\ IF name = "manifest.bml"
          /\ (medium_paths[id] = <<>> \/ medium_paths[id][Len(medium_paths[id])] # ".sys/")
       THEN \E imported_path \in IcarusImport(medium_paths[id]) :
               /\ medium_paths' = [medium_paths EXCEPT ![id] = imported_path]
               /\ dirs' = IF imported_path = <<>> THEN dirs ELSE dirs \cup {imported_path}
               /\ files' = IF imported_path = <<>> THEN files
                           ELSE FilesWith(files, imported_path \o <<"program.rom">>,
                                          GameData([g |-> ld.g]))
               /\ opn' = OpenObserved(id, name, mode, required, 1,
                                      MemoryFile(IF imported_path = <<>> THEN <<>>
                                                 ELSE GameData([g |-> ld.g])),
                                      <<>>, FALSE, dirs' # dirs)
       ELSE LET p == medium_paths[id] \o <<name>>
                result == FsOpen(files, dirs, p, mode)
            IN  /\ files' = FsOpenFiles(files, dirs, p, mode)
                /\ opn' = OpenObserved(id, name, mode, required,
                                       IF result = NoHandle THEN 0 ELSE 4, result, p,
                                       FALSE, FALSE)
                /\ UNCHANGED <<medium_paths, dirs>>
    /\ ld' = [ld EXCEPT !.opens = @ + 1]
    /\ UNCHANGED <<pc, engine, polled, cacheVars, last, env, filemap, failed,
                   fake_game_path, loaded_manifest, imported_files>>

\* retro_load_game of the variant, from the return of emulator->load() on.
MultiRetroLoadGameReturn(ok, isLoaded) ==
    /\ pc = "retro_load_game"
    /\ pc' = "idle"
    /\ LET loadedEngine == [engine EXCEPT !.loaded = isLoaded]
           result == IF ~ok THEN "load"
                     ELSE IF ~isLoaded THEN "not loaded"
                     ELSE "ok"
       IN  /\ ld' = [ld EXCEPT !.result = result, !.load = ok,
                               !.isLoaded = ok /\ isLoaded, !.powered = result = "ok"]
           /\ last' = Observed("retro_load_game", 0, result = "ok", 0, 0)
           /\ IF result = "ok"
              THEN /\ engine' = EnginePower(loadedEngine)
                   /\ has_cached_serialize' = FALSE
                   /\ win' = OpenWindow("retro_load_game")
              ELSE /\ engine' = loadedEngine
                   /\ win' = [win EXCEPT !.other = TRUE]
                   /\ UNCHANGED has_cached_serialize
    /\ opn' = NoOpen
    /\ UNCHANGED <<polled, cached_serialize, buf, progVars, diskVars>>

\* retro_run() of the variant, up to the return of emulator->run():
\* input_poll(), then the engine executes one step.
MultiRetroRunEnter ==
    /\ pc = "idle" /\ engine.loaded
    /\ \E st \in (0..MaxSt) \ {engine.st} : engine' = [engine EXCEPT !.st = st]
    /\ pc' = "retro_run"
    /\ last' = Observed("retro_run", 0, TRUE, 0, 0)
    /\ UNCHANGED <<polled, cacheVars, progVars, diskVars, opn, ld>>

\* retro_run() of the variant, the rest: the cache flag is cleared.
MultiRetroRunReturn ==
    /\ pc = "retro_run"
    /\ has_cached_serialize' = FALSE
    /\ win' = OpenWindow("retro_run")
    /\ pc' = "idle"
    /\ UNCHANGED <<engine, polled, cached_serialize, buf, progVars, diskVars,
                   last, opn, ld>>

\* The engine reading the manifest and the program ROM of a slot.
MultiOpens ==
    \E id \in Slots, name \in {"manifest.bml", "program.rom"} :
        ld.opens < MaxOpens /\ MultiOpen(id, name, "read", FALSE)

NextMulti ==
    \/ MultiRetroLoadGameRefused
    \/ MultiRetroLoadGameEnter([g |-> 1, kind |-> "rom"])
    \/ MultiOpens
    \/ \E ok \in BOOLEAN, isLoaded \in BOOLEAN : MultiRetroLoadGameReturn(ok, isLoaded)
    \/ RetroUnloadGameEnter
    \/ RetroUnloadGameReturn
    \/ RetroReset
    \/ MultiRetroRunEnter
    \/ MultiRetroRunReturn
    \/ RetroSerializeSize
    \/ \E size \in 0..BufCap : RetroSerialize(size)
    \/ \E data \in UnserializeInputs : RetroUnserialize(data)
    \/ RetroCheatReset
    \/ RetroCheatSet

SpecMulti == InitOpen /\ [][NextMulti]_vars

(* --------------------------- the slot path table ----------------------- *)
\* C23: the slot path table is written only by retro_load_game, in the step
\* it takes from the idle core: no Program::open call, and no other step
\* made while an entry point is inside the engine, changes a base path.
C23_OnlyLoadWritesThePaths ==
    [][medium_paths' # medium_paths => pc = "idle"]_vars

(* ------------------- retro_run and the serialize cache ----------------- *)
\* C25: in every variant of retro_run the cache flag is cleared before the
\* engine's run() is invoked: while retro_run is past its first statements
\* the cache is never valid, so it is never valid with a snapshot that the
\* step the engine executed is not in.
C25_FlagClearedBeforeRun ==
    pc = "retro_run" => ~has_cached_serialize

(* ---------------------- what the queries leave alone ------------------- *)
\* A step that is a query: retro_serialize_size() or retro_serialize().
QueryStep == win'.q = win.q + 1 /\ last'.op \in {"retro_serialize_size", "retro_serialize"}

\* C24: retro_serialize_size() and retro_serialize() never change the
\* engine's run-state, the virtual store, the slot path table or the failure
\* flag, whether they fill the cache or answer from it.
C24_QueriesChangeOnlyTheCache ==
    [][QueryStep => UNCHANGED <<engine, imported_files, medium_paths, failed>>]_vars

\* A query filled the cache from an engine that had run, with a store and a
\* path table that a load had set up.
C24_Witness ==
    /\ last.op \in {"retro_serialize_size", "retro_serialize"} /\ last.ser = 1
    /\ has_cached_serialize /\ cached_serialize = EngineSerialize(engine)
    /\ engine.st # 0
    /\ imported_files # EmptyStore /\ medium_paths[medium_id] # <<>>

(* ----------------------- the cache and the engine ---------------------- *)
\* C26: whenever the cache is Valid and no entry point is inside the engine,
\* the cached snapshot is what the engine's serialize() would return at that
\* moment; in particular the cache is never Valid with a snapshot of before
\* a retro_reset, a retro_unload_game or a failed retro_load_game.
C26_ValidCacheIsCurrent ==
    (pc = "idle" /\ engine.loaded /\ has_cached_serialize) =>
        cached_serialize = EngineSerialize(engine)

(* ------------------------- a rejected unserialize ---------------------- *)
\* The last entry point was the first query after a retro_unserialize that
\* the engine rejected.
FirstQueryAfterRejected ==
    /\ last.op \in {"retro_serialize_size", "retro_serialize"}
    /\ win.via = "retro_unserialize rejected" /\ win.q = 1

\* C27: retro_unserialize clears the cache flag on every call, whether the
\* engine accepts the data or rejects it, so the first query after a
\* rejected retro_unserialize invokes the engine's serialize() again.
C27_UnserializeAlwaysInvalidates ==
    /\ last.op = "retro_unserialize" => ~has_cached_serialize
    /\ FirstQueryAfterRejected => last.ser = 1 /\ cached_serialize = EngineSerialize(engine)

\* The cache was Valid, the engine rejected the data of a retro_unserialize,
\* and the query that followed computed the snapshot anew.
C27_Witness ==
    /\ FirstQueryAfterRejected /\ win.stale # NoSnap
    /\ last.ser = 1 /\ has_cached_serialize

(* -------------------------- a failed import ---------------------------- *)
\* Loads that import, with the engine reading from inside load() what the
\* import leaves in the store.
PartialOpens ==
    \E name \in {"manifest.bml", "program.rom"} :
        ld.opens < MaxOpens /\ Open(medium_id, name, "read", FALSE)

\* Loads of a ROM with a path, whatever the detector answers.
PartialLoads ==
    \/ \E d \in AnyDetections : RetroLoadGameEnter([g |-> 1, kind |-> "rom"], d)
    \/ \E ok \in BOOLEAN, isLoaded \in BOOLEAN : RetroLoadGameReturn(ok, isLoaded)

InitPartial ==
    /\ InitProgram
    /\ files \in ImportDisks
    /\ dirs = InitDirs
    /\ env = [sys |-> "sys", save |-> "save"]

NextPartial == PartialLoads \/ PartialOpens
SpecPartial == InitPartial /\ [][NextPartial]_vars

\* The import_rom call of the last load stopped in its loop, at the last
\* name it resolved.
ImportStoppedInLoop ==
    /\ ImportRetried /\ ld.imp.imports = 1 /\ ~ld.imp.ok

\* The names import_rom read before the one it stopped at.
ReadBeforeStop == SubSeq(ld.imp.resolved, 1, Len(ld.imp.resolved) - 1)

\* C28: when import_rom fails at the k-th missing file, the store holds,
\* under the synthetic name and under no other, the primary bytes followed by
\* the bytes of the k-1 files read before; retro_load_game returns false
\* without calling the engine's load(), and no Program::open call is made in
\* that load: every open of a load that imports follows a complete import.
C28_FailedImportLeavesPrefix ==
    /\ ImportStoppedInLoop =>
          /\ imported_files = (FakeName :> (ld.imp.rom \o BytesOf(ReadBeforeStop)))
          /\ pc = "idle" /\ last.op = "retro_load_game" /\ ~last.ok
          /\ ld.result = "import" /\ ~ld.load
          /\ opn = NoOpen
    /\ (Opened /\ ld.imp.ran) => ld.imp.ok

\* import_rom read the first missing file, stopped at the second, and left
\* the ROM followed by the bytes of the first in the store.
C28_Witness ==
    /\ ImportStoppedInLoop /\ Len(ld.imp.resolved) = 2
    /\ BytesOf(ReadBeforeStop) # <<>>
    /\ imported_files = (FakeName :> (ld.imp.rom \o BytesOf(ReadBeforeStop)))
    /\ ld.result = "import" /\ pc = "idle"

(* ------------------- a retro_serialize that fails ---------------------- *)
\* C29: a retro_serialize that fails on a size mismatch while the cache is
\* Invalid has still invoked the engine's serialize() once and leaves the
\* cache Valid with that snapshot; the query that follows it without an
\* invalidating event does not invoke serialize() again.
C29_FailedSerializeFillsTheCache ==
    /\ (last.op = "retro_serialize" /\ ~last.ok) =>
          /\ has_cached_serialize
          /\ last.size # Len(cached_serialize)
          /\ win.q = 1 => (last.ser = 1 /\ cached_serialize = EngineSerialize(engine))
    /\ (last.op \in {"retro_serialize_size", "retro_serialize"} /\ win.q >= 2) =>
          last.ser = 0

\* The first query after a retro_run was a retro_serialize of the wrong
\* size: it failed, and the cache holds the snapshot of the engine.
C29_Witness ==
    /\ last.op = "retro_serialize" /\ ~last.ok /\ last.ser = 1
    /\ win.via = "retro_run" /\ win.q = 1
    /\ has_cached_serialize /\ cached_serialize = EngineSerialize(engine)
    /\ buf = PoisonBuf

(* --------------------- reading and the filesystem ---------------------- *)
\* C30: a Program::open call in read mode never modifies the filesystem: it
\* creates no file and no directory, whichever tier answers it and also
\* when it fails.
C30_ReadCreatesNothing ==
    (Opened /\ opn.mode = "read") => ~opn.created

(* ----------------------- the virtual store, alone ---------------------- *)
\* LibretroIcarus::read(pathname): the entry whose key is the whole
\* pathname, or an empty vector. A key is a file name without directories,
\* so only a pathname of one piece can be a key.
IcarusRead(store, pathname) ==
    IF Len(pathname) = 1 /\ pathname[1] \in DOMAIN store
    THEN store[pathname[1]]
    ELSE <<>>

\* The file names and the data icarus hands to write and read.
StoreNames ==
    {<<FakeName>>, <<"program.rom">>, <<"Emulation/", "game.sfc/", "program.rom">>}
StoreData == {<<>>} \cup {<<b>> : b \in 1..MaxData}

\* No store call precedes.
NoWrite == [name |-> <<>>, data |-> <<>>]

\* LibretroIcarus::write(filename, data, size), called by icarus.
IcarusWrites(filename, data) ==
    /\ pc = "idle"
    /\ imported_files' = IcarusWrite(imported_files, filename, data)
    /\ last' = [op |-> "write", name |-> filename, data |-> data, after |-> NoWrite]
    /\ UNCHANGED <<pc, engine, polled, cacheVars, failed, fake_game_path,
                   loaded_manifest, medium_paths, diskVars, opn, ld>>

\* LibretroIcarus::read(pathname), called by icarus: what it returns, and
\* the write it directly follows, if it follows one.
IcarusReads(pathname) ==
    /\ pc = "idle"
    /\ last' = [op |-> "read", name |-> pathname,
                data |-> IcarusRead(imported_files, pathname),
                after |-> IF last.op = "write"
                          THEN [name |-> last.name, data |-> last.data]
                          ELSE NoWrite]
    /\ UNCHANGED <<pc, engine, polled, cacheVars, progVars, diskVars, opn, ld>>

\* LibretroIcarus::reset()
IcarusReset ==
    /\ pc = "idle"
    /\ imported_files' = EmptyStore
    /\ last' = [op |-> "reset", name |-> <<>>, data |-> <<>>, after |-> NoWrite]
    /\ UNCHANGED <<pc, engine, polled, cacheVars, failed, fake_game_path,
                   loaded_manifest, medium_paths, diskVars, opn, ld>>

NextStore ==
    \/ \E filename \in StoreNames, data \in StoreData : IcarusWrites(filename, data)
    \/ \E pathname \in StoreNames : IcarusReads(pathname)
    \/ IcarusReset

SpecStore == InitCache /\ [][NextStore]_vars

\* C31: LibretroIcarus::write(f, d) directly followed by
\* LibretroIcarus::read(f) returns d, for a file name f with or without
\* directory components; and the store holds one entry per stored name.
C31_WriteThenReadRoundTrip ==
    (last.op = "read" /\ last.after.name = last.name) => last.data = last.after.data

(* ---------------------- the manifest of an earlier load ---------------- *)
\* Games loaded one after another, as manifests, ROMs or without a path,
\* with the engine reading the manifest of the medium from inside load().
ManifestLoads ==
    \/ \E g \in 1..MaxManifests, kind \in GameKinds :
          RetroLoadGameEnter([g |-> g, kind |-> kind],
                             [first |-> TRUE, missing |-> <<>>, second |-> TRUE])
    \/ \E ok \in BOOLEAN : RetroLoadGameReturn(ok, ok)

ManifestOpens ==
    \E required \in BOOLEAN :
        ld.opens < MaxOpens /\ Open(medium_id, "manifest.bml", "read", required)

NextManifest == ManifestLoads \/ ManifestOpens
SpecManifest == InitCache /\ [][NextManifest]_vars

\* C32: while a retro_load_game call is inside the engine's load(), the
\* in-memory manifest is non-empty only if the game's path ends in ".bml",
\* and it is then the data of that game; the synthetic game path is empty
\* for such a game; so the first tier of Program::open never returns the
\* manifest of an earlier load.
C32_NoManifestOfEarlierLoad ==
    pc = "retro_load_game" =>
        /\ loaded_manifest # <<>> => ld.kind = "bml"
        /\ ld.kind = "bml" =>
              (loaded_manifest = GameData([g |-> ld.g]) /\ fake_game_path = "")
        /\ (Opened /\ opn.tier = 1) =>
              opn.handle = MemoryFile(GameData([g |-> ld.g]))

\* With game 1 loaded, game 2 is loaded as a ROM: no manifest is in memory
\* and the engine's request for manifest.bml is answered from the store.
C32_Witness ==
    /\ pc = "retro_load_game" /\ ld.kind = "rom" /\ ld.g = 2
    /\ engine.loaded /\ engine.game = 1
    /\ loaded_manifest = <<>>
    /\ Opened /\ opn.name = "manifest.bml" /\ opn.tier = 3

(* ------------------------------ input polling -------------------------- *)
\* SuperFamicom::ID::Port::Controller1, Controller2 and another port;
\* SuperFamicom::ID::Device::Gamepad and another device.
Ports == {"Controller1", "Controller2", "Expansion"}
Devices == {"Gamepad", "Mouse"}

InputPolls == \E port \in Ports, device \in Devices : InputPoll(port, device)

NextPoll == NextCache \/ InputPolls
SpecPoll == InitCache /\ [][NextPoll]_vars

\* C33: each retro_run call invokes the frontend's input_poll exactly once,
\* however many times the engine calls Program::inputPoll during the step:
\* the flag polled is false from the start of run() and no poll is made
\* until run() returns, and when retro_run has returned the flag is true and
\* one poll was made.
C33_OnePollPerRun ==
    /\ pc = "retro_run" => (~polled /\ last.n = 0)
    /\ (pc = "idle" /\ last.op = "retro_run") => (polled /\ last.n = 1)

\* A retro_run in which the engine asked for input twice has returned, in a
\* core that had polled in an earlier retro_run.
C33_Witness ==
    /\ pc = "idle" /\ last.op = "retro_run" /\ last.size = MaxPolls
    /\ polled /\ last.n = 1

(* ----------------------------- nall::filemap --------------------------- *)
\* enum class mode, and a value outside it; a descriptor ::open returns.
FilemapModes == {"read", "write", "readwrite", "writeread"}
AnyModes == FilemapModes \cup {"other"}
SomeFd == 0 + 3

\* The files a filemap is opened on: an empty one, two with bytes, and one
\* that does not exist.
MapNames ==
    {<<"roms/", "empty.bin">>, <<"roms/", "data.bin">>, <<"roms/", "more.bin">>,
     <<"roms/", "new.bin">>}
MapDisk ==
    (<<"roms/", "empty.bin">> :> <<>>) @@ (<<"roms/", "data.bin">> :> <<7>>) @@
    (<<"roms/", "more.bin">> :> <<7, 8>>)

FilemapOps == {"filemap::open", "filemap::open()", "filemap::close"}

\* History of the object: open(filename, mode) has returned true and close()
\* was not called since; close() was called and open(filename, mode) not
\* since.
Held == last.op \in FilemapOps /\ last.held
Closed == last.op \in FilemapOps /\ last.closed

FilemapObserved(op, filename, mode_, ok, held, closed) ==
    [op |-> op, name |-> filename, mode |-> mode_, ok |-> ok, held |-> held,
     closed |-> closed]

\* filemap::open(filename, mode), the mmap build: true at once for an empty
\* file; otherwise ::open (creating the file for write and writeread),
\* fstat and mmap, which fails for a length of 0 and may fail otherwise.
p_open(filename, mode_) ==
    /\ pc = "idle"
    /\ IF filename \in DOMAIN files /\ files[filename] = <<>>
       THEN /\ filemap' = [filemap EXCEPT !.p_handle = NullPtr, !.p_size = 0]
            /\ last' = FilemapObserved("filemap::open", filename, mode_, TRUE, TRUE, FALSE)
            /\ UNCHANGED files
       ELSE IF mode_ \notin FilemapModes
       THEN /\ last' = FilemapObserved("filemap::open", filename, mode_, FALSE, Held, FALSE)
            /\ UNCHANGED <<filemap, files>>
       ELSE LET creat == mode_ \in {"write", "writeread"}
                opened == \/ filename \in DOMAIN files
                          \/ creat /\ DirOf(filename) \in dirs /\ filename \notin dirs
                fs == IF opened /\ filename \notin DOMAIN files
                      THEN FilesWith(files, filename, <<>>) ELSE files
            IN  IF ~opened
                THEN /\ filemap' = [filemap EXCEPT !.p_fd = NoFd]
                     /\ last' = FilemapObserved("filemap::open", filename, mode_, FALSE,
                                                Held, FALSE)
                     /\ UNCHANGED files
                ELSE \E mapped \in (IF Len(fs[filename]) = 0 THEN {FALSE} ELSE BOOLEAN) :
                        /\ files' = fs
                        /\ filemap' = IF mapped
                                      THEN [p_handle |-> filename,
                                            p_size |-> Len(fs[filename]), p_fd |-> SomeFd]
                                      ELSE [p_handle |-> NullPtr,
                                            p_size |-> Len(fs[filename]), p_fd |-> NoFd]
                        /\ last' = FilemapObserved("filemap::open", filename, mode_, mapped,
                                                   mapped \/ Held, FALSE)
    /\ UNCHANGED <<pc, engine, polled, cacheVars, progVars, dirs, env, opn, ld>>

\* filemap::open() and operator bool: whether p_handle is set.
IsOpen ==
    /\ pc = "idle"
    /\ last' = FilemapObserved("filemap::open()", <<>>, "", filemap.p_handle # NullPtr,
                               Held, Closed)
    /\ UNCHANGED <<pc, engine, polled, cacheVars, progVars, diskVars, opn, ld>>

\* filemap::close(): munmap if mapped, ::close if a descriptor is held.
p_close ==
    /\ pc = "idle"
    /\ filemap' = [filemap EXCEPT !.p_handle = NullPtr, !.p_fd = NoFd]
    /\ last' = FilemapObserved("filemap::close", <<>>, "", TRUE, FALSE, TRUE)
    /\ UNCHANGED <<pc, engine, polled, cacheVars, progVars, files, dirs, env, opn, ld>>

InitFilemap ==
    /\ InitProgram
    /\ files = MapDisk
    /\ dirs = InitDirs
    /\ env = [sys |-> "sys", save |-> "save"]

NextFilemap ==
    \/ \E filename \in MapNames, mode_ \in AnyModes : p_open(filename, mode_)
    \/ IsOpen
    \/ p_close

SpecFilemap == InitFilemap /\ [][NextFilemap]_vars

\* C34: once open(filename, mode) has returned true, open() returns true
\* until close() is called; after close(), open() returns false, and the
\* object is as a close() leaves it, so that a second close() changes
\* nothing.
C34_OpenStaysOpenUntilClose ==
    /\ (last.op = "filemap::open()" /\ last.held) => last.ok
    /\ (last.op = "filemap::open()" /\ last.closed) => ~last.ok
    /\ last.op = "filemap::close" =>
          (filemap.p_handle = NullPtr /\ filemap.p_fd = NoFd)

====
